---- MODULE Spec2Model ----
(***************************************************************************)
(* Conway's Game of Life on a sparse coordinate-indexed grid               *)
(* (src/src/main.rs).  The world is a BTreeMap keyed by x of BTreeMaps     *)
(* keyed by y of Life records; tick() surveys every aged cell, then        *)
(* removes the cells scheduled to die, inserts the birth candidates and    *)
(* ages every stored cell.                                                 *)
(***************************************************************************)
EXTENDS Integers, Sequences, FiniteSets

\* ------------------------------------------------------------- bounds ----

\* i64::MAX, scaled down: the coordinate type is the interval
\* CoordMin..CoordMax and the saturating operations clamp to it.
CoordMax == 3

\* i64::MIN = -i64::MAX - 1
CoordMin == -CoordMax - 1

Coord == CoordMin..CoordMax

\* Lines of the input file: at most MaxSeed distinct cells are loaded.  They
\* form one neighbourhood placed anywhere on the plane (see Fits).
MaxSeed == 5

\* Generations run (main runs 10).
MaxTicks == 2

\* Calls of add_life and of initialize made by a caller other than main.
MaxAdds == 4

MaxInits == 1

MaxRemoves == 1

VARIABLES
    map,        \* World.map: x |-> (y |-> Life)
    age,        \* World.age
    phase,      \* the caller: main "load"-ing cells, main in its "run" loop,
                \* or "api", any caller of the public operations
    seed,       \* main: the positions stored when initialize was called
    adds,       \* api: number of add_life calls made
    inits,      \* api: number of initialize calls made
    removes,    \* api: number of remove_life calls made
    last,       \* api: the last operation called, with its arguments
    panicked,   \* a panic unwound the program
    pc,         \* tick() taken statement by statement: where it stands
    todo,       \* the Lives the survey loop has yet to visit
    kill_vec,   \* tick's kill_vec
    new_life_set, \* tick's new_life_set
    start,      \* the map as it stood when the running (or last) tick began
    result      \* the Vec the last range query returned

\* The locals of a tick() taken statement by statement.
tickvars == <<pc, todo, kill_vec, new_life_set, start>>

vars == <<map, age, phase, seed, adds, inits, removes, last, panicked,
          tickvars, result>>

\* ------------------------------------------------------------ helpers ----

\* BTreeMap iteration order: ascending keys.
RECURSIVE Ascending(_)
Ascending(S) ==
    IF S = {} THEN <<>>
    ELSE LET lo == CHOOSE a \in S : \A b \in S : a <= b
         IN  <<lo>> \o Ascending(S \ {lo})

RECURSIVE Flatten(_)
Flatten(ss) == IF ss = <<>> THEN <<>> ELSE Head(ss) \o Flatten(Tail(ss))

\* BTreeMap::new()
EmptyMap == [k \in {} |-> 0]

\* BTreeMap::insert
Insert(f, k, v) == [j \in DOMAIN f \cup {k} |-> IF j = k THEN v ELSE f[j]]

\* BTreeMap::remove
Remove(f, k) == [j \in DOMAIN f \ {k} |-> f[j]]

\* A slip: the half-open range lo..hi where lo..=hi was meant.
Range_ExcludesEnd(f, lo, hi) ==
    LET ks == Ascending({k \in DOMAIN f : lo <= k /\ k < hi})
    IN  [i \in 1..Len(ks) |-> f[ks[i]]]

\* BTreeMap::range((Included(lo), Included(hi))): the values whose keys lie in
\* lo..hi, ascending.  (It can panic when lo > hi: see RangePanics.)
Range(f, lo, hi) ==
    LET ks == Ascending({k \in DOMAIN f : lo <= k /\ k <= hi})
    IN  [i \in 1..Len(ks) |-> f[ks[i]]]

\* BTreeMap::range panics ("range start is greater than range end") when
\* lo > hi and the map has a root node; a map that never held a key has none
\* and its range is empty whatever the bounds.  A map emptied by remove keeps
\* its root.
RangePanics(rooted, lo, hi) == rooted /\ lo > hi

\* World.map has a root once add_life has inserted an x key: no operation
\* removes an x key (remove_life removes from the inner map only).  An inner
\* map is built by BTreeMap::new() followed by insert, so it always has one.
has_root(m) == DOMAIN m # {}

\* A slip: wrapping_add where saturating_add was meant.
saturating_add_Wraps(a, b) ==
    IF a + b > CoordMax THEN a + b - (CoordMax - CoordMin + 1)
    ELSE IF a + b < CoordMin THEN a + b + (CoordMax - CoordMin + 1) ELSE a + b

\* i64::saturating_add, i64::saturating_sub
saturating_add(a, b) ==
    IF a + b > CoordMax THEN CoordMax
    ELSE IF a + b < CoordMin THEN CoordMin ELSE a + b

\* A slip: the plain subtraction where saturating_sub was meant.
saturating_sub_Unchecked(a, b) == a - b

saturating_sub(a, b) ==
    IF a - b > CoordMax THEN CoordMax
    ELSE IF a - b < CoordMin THEN CoordMin ELSE a - b

\* --------------------------------------------------------------- Life ----

Life_new(x_pos, y_pos) == [x_pos |-> x_pos, y_pos |-> y_pos, age |-> 0]

\* A slip: the y distance is left out of the test.
is_close_neighbor_XOnly(self, neighbor) ==
    LET dist_x == neighbor.x_pos - self.x_pos
    IN  dist_x >= -1 /\ dist_x <= 1

is_close_neighbor(self, neighbor) ==
    LET dist_x == neighbor.x_pos - self.x_pos
        dist_y == neighbor.y_pos - self.y_pos
    IN  dist_x >= -1 /\ dist_x <= 1 /\ dist_y >= -1 /\ dist_y <= 1

calculate_neighbor_coordinates(self, pos) ==
    CASE pos = 0 -> <<saturating_sub(self.x_pos, 1), saturating_add(self.y_pos, 1)>>
      [] pos = 1 -> <<self.x_pos, saturating_add(self.y_pos, 1)>>
      [] pos = 2 -> <<saturating_add(self.x_pos, 1), saturating_add(self.y_pos, 1)>>
      [] pos = 3 -> <<saturating_sub(self.x_pos, 1), self.y_pos>>
      [] pos = 4 -> <<saturating_add(self.x_pos, 1), self.y_pos>>
      [] pos = 5 -> <<saturating_sub(self.x_pos, 1), saturating_sub(self.y_pos, 1)>>
      [] pos = 6 -> <<self.x_pos, saturating_sub(self.y_pos, 1)>>
      [] pos = 7 -> <<saturating_add(self.x_pos, 1), saturating_sub(self.y_pos, 1)>>

\* impl TimeBasedEntity for Life: tick.  (age is a u32; the ages reached
\* here stay far below u32::MAX.)
Life_tick(self) == [self EXCEPT !.age = @ + 1]

\* The counters a neighbour at offset (dist_x, dist_y) from the centre adds
\* one to: the match of update_new_life_counters.
CounterTable(dist_x, dist_y) ==
    CASE dist_y = 2 ->
           (CASE dist_x = -2 -> {0}
              [] dist_x = -1 -> {0, 1}
              [] dist_x = 0  -> {0, 1, 2}
              [] dist_x = 1  -> {1, 2}
              [] dist_x = 2  -> {2}
              [] OTHER -> {})
      [] dist_y = 1 ->
           (CASE dist_x = -2 -> {0, 3}
              [] dist_x = -1 -> {1, 3}
              [] dist_x = 0  -> {0, 2, 3, 4}
              [] dist_x = 1  -> {1, 4}
              [] dist_x = 2  -> {2, 4}
              [] OTHER -> {})
      [] dist_y = 0 ->
           (CASE dist_x = -2 -> {0, 3, 5}
              [] dist_x = -1 -> {0, 1, 5, 6}
              [] dist_x = 1  -> {1, 2, 6, 7}
              [] dist_x = 2  -> {2, 4, 7}
              [] OTHER -> {})
      [] dist_y = -1 ->
           (CASE dist_x = -2 -> {3, 5}
              [] dist_x = -1 -> {3, 6}
              [] dist_x = 0  -> {3, 4, 5, 7}
              [] dist_x = 1  -> {4, 6}
              [] dist_x = 2  -> {4, 7}
              [] OTHER -> {})
      [] dist_y = -2 ->
           (CASE dist_x = -2 -> {5}
              [] dist_x = -1 -> {5, 6}
              [] dist_x = 0  -> {5, 6, 7}
              [] dist_x = 1  -> {6, 7}
              [] dist_x = 2  -> {7}
              [] OTHER -> {})
      [] OTHER -> {}

\* A slip in one arm of the match: the neighbour at offset (-1, 1) adds to
\* counter 1 only, not to counter 3.
update_new_life_counters_DropsOne(counters, center, neighbor) ==
    LET dist_x == neighbor.x_pos - center.x_pos
        dist_y == neighbor.y_pos - center.y_pos
        hit == IF dist_x = -1 /\ dist_y = 1 THEN {1}
               ELSE CounterTable(dist_x, dist_y)
    IN  [i \in 0..7 |-> IF i \in hit THEN counters[i] + 1 ELSE counters[i]]

update_new_life_counters(counters, center, neighbor) ==
    LET dist_x == neighbor.x_pos - center.x_pos
        dist_y == neighbor.y_pos - center.y_pos
        hit == CounterTable(dist_x, dist_y)
    IN  [i \in 0..7 |-> IF i \in hit THEN counters[i] + 1 ELSE counters[i]]

\* -------------------------------------------------------------- World ----

\* A slip: insert without the contains_key test.
add_life_Overwrites(m, life) ==
    IF life.x_pos \in DOMAIN m
    THEN [m EXCEPT ![life.x_pos] = Insert(@, life.y_pos, life)]
    ELSE Insert(m, life.x_pos, Insert(EmptyMap, life.y_pos, life))

add_life(m, life) ==
    IF life.x_pos \in DOMAIN m
    THEN IF life.y_pos \notin DOMAIN m[life.x_pos]
         THEN [m EXCEPT ![life.x_pos] = Insert(@, life.y_pos, life)]
         ELSE m
    ELSE Insert(m, life.x_pos, Insert(EmptyMap, life.y_pos, life))

remove_life(m, life) ==
    IF life.x_pos \in DOMAIN m
    THEN IF life.y_pos \in DOMAIN m[life.x_pos]
         THEN [m EXCEPT ![life.x_pos] = Remove(@, life.y_pos)]
         ELSE m
    ELSE m

\* The x range is (start_x, end_x), the y range (end_y, start_y).
spatial_query(m, start_x, start_y, end_x, end_y) ==
    LET x_range == Range(m, start_x, end_x)
    IN  Flatten([i \in 1..Len(x_range) |-> Range(x_range[i], end_y, start_y)])

spatial_query_panics(m, start_x, start_y, end_x, end_y) ==
    \/ RangePanics(has_root(m), start_x, end_x)
    \/ /\ Len(Range(m, start_x, end_x)) > 0
       /\ RangePanics(TRUE, end_y, start_y)

query_around_point(m, x, y) ==
    spatial_query(m, saturating_sub(x, 2), saturating_add(y, 2),
                     saturating_add(x, 2), saturating_sub(y, 2))

query_around_point_panics(m, x, y) ==
    spatial_query_panics(m, saturating_sub(x, 2), saturating_add(y, 2),
                            saturating_add(x, 2), saturating_sub(y, 2))

\* x_map.iter() with the nested y_map.iter(): every stored Life, by
\* ascending x key and, within one x, ascending y key.
iter(m) ==
    LET xs == Ascending(DOMAIN m)
    IN  Flatten([i \in 1..Len(xs) |->
                    LET ys == Ascending(DOMAIN m[xs[i]])
                    IN  [j \in 1..Len(ys) |-> m[xs[i]][ys[j]]]])

\* A slip: the aging loop passes over the cells of age 0.
age_all_SkipsNewborns(m) ==
    [x \in DOMAIN m |->
        [y \in DOMAIN m[x] |->
            IF m[x][y].age = 0 THEN m[x][y] ELSE Life_tick(m[x][y])]]

\* iter_mut() with Life::tick on every value (initialize, and the last loop
\* of tick).
age_all(m) == [x \in DOMAIN m |-> [y \in DOMAIN m[x] |-> Life_tick(m[x][y])]]

initialize(m) == age_all(m)

\* A slip: the two fields are printed in the other order.
fmt_YFirst(m) ==
    LET ls == iter(m)
    IN  [i \in 1..Len(ls) |-> <<ls[i].y_pos, ls[i].x_pos>>]

\* impl Display for World: one "<x> <y>" line per stored Life, in iteration
\* order, printing the fields of the Life.
fmt(m) ==
    LET ls == iter(m)
    IN  [i \in 1..Len(ls) |-> <<ls[i].x_pos, ls[i].y_pos>>]

\* --------------------------------------------------------------- tick ----

RECURSIVE count_neighbors_NoSkipSelf(_, _, _, _)
\* A slip: the centre itself is not skipped.
count_neighbors_NoSkipSelf(neighbors, life, close_neighbor_count, new_life_counters) ==
    IF neighbors = <<>>
    THEN [close |-> close_neighbor_count, counters |-> new_life_counters]
    ELSE LET neighbor == Head(neighbors)
         IN  IF neighbor.age = 0
             THEN count_neighbors_NoSkipSelf(Tail(neighbors), life,
                                  close_neighbor_count, new_life_counters)
             ELSE count_neighbors_NoSkipSelf(
                    Tail(neighbors), life,
                    IF is_close_neighbor(life, neighbor)
                    THEN close_neighbor_count + 1 ELSE close_neighbor_count,
                    update_new_life_counters(new_life_counters, life, neighbor))

RECURSIVE count_neighbors_CountsNewborns(_, _, _, _)
\* A slip: the neighbour of age 0 is not skipped.
count_neighbors_CountsNewborns(neighbors, life, close_neighbor_count, new_life_counters) ==
    IF neighbors = <<>>
    THEN [close |-> close_neighbor_count, counters |-> new_life_counters]
    ELSE LET neighbor == Head(neighbors)
         IN  IF life.x_pos = neighbor.x_pos /\ life.y_pos = neighbor.y_pos
             THEN count_neighbors_CountsNewborns(
                    Tail(neighbors), life,
                    close_neighbor_count, new_life_counters)
             ELSE count_neighbors_CountsNewborns(
                    Tail(neighbors), life,
                    IF is_close_neighbor(life, neighbor)
                    THEN close_neighbor_count + 1 ELSE close_neighbor_count,
                    update_new_life_counters(new_life_counters, life, neighbor))

RECURSIVE count_neighbors(_, _, _, _)
\* The loop over query_around_point for one centre: the running
\* close_neighbor_count and new_life_counters.
count_neighbors(neighbors, life, close_neighbor_count, new_life_counters) ==
    IF neighbors = <<>>
    THEN [close |-> close_neighbor_count, counters |-> new_life_counters]
    ELSE LET neighbor == Head(neighbors)
         IN  IF life.x_pos = neighbor.x_pos /\ life.y_pos = neighbor.y_pos
             THEN count_neighbors(Tail(neighbors), life,
                                  close_neighbor_count, new_life_counters)
             ELSE IF neighbor.age = 0
             THEN count_neighbors(Tail(neighbors), life,
                                  close_neighbor_count, new_life_counters)
             ELSE count_neighbors(
                    Tail(neighbors), life,
                    IF is_close_neighbor(life, neighbor)
                    THEN close_neighbor_count + 1 ELSE close_neighbor_count,
                    update_new_life_counters(new_life_counters, life, neighbor))

\* A slip: the counters start at 0, the centre itself is not counted.
survey_counts_ZeroInit(m, life) ==
    count_neighbors(query_around_point(m, life.x_pos, life.y_pos),
                    life, 0, [i \in 0..7 |-> 0])

\* close_neighbor_count and new_life_counters as the neighbour loop leaves
\* them for the centre life: they start at 0 and at [1; 8].
survey_counts(m, life) ==
    count_neighbors(query_around_point(m, life.x_pos, life.y_pos),
                    life, 0, [i \in 0..7 |-> 1])

\* A slip: only a count of 2 keeps the cell.
survey_OnlyTwo(m, life) ==
    IF life.age = 0
    THEN [kill |-> FALSE, births |-> {}]
    ELSE LET c == survey_counts(m, life)
         IN  [kill   |-> ~(c.close = 2),
              births |-> {calculate_neighbor_coordinates(life, i) :
                            i \in {j \in 0..7 : c.counters[j] = 3}}]

\* The body of the survey loop for one stored Life: whether it is pushed on
\* kill_vec and what it inserts into new_life_set.
survey(m, life) ==
    IF life.age = 0
    THEN [kill |-> FALSE, births |-> {}]
    ELSE LET c == survey_counts(m, life)
         IN  [kill   |-> ~(c.close = 2 \/ c.close = 3),
              births |-> {calculate_neighbor_coordinates(life, i) :
                            i \in {j \in 0..7 : c.counters[j] = 3}}]

\* neighbor.x_pos - center.x_pos and neighbor.y_pos - center.y_pos, the i64
\* subtractions of is_close_neighbor and update_new_life_counters: the
\* difference overflows when it leaves the coordinate type.
sub_overflows(a, b) == a - b \notin Coord

\* Some subtraction of the survey of life overflows: one is computed for
\* every neighbour that is neither life itself nor of age 0.
survey_overflows(m, life) ==
    LET neighbors == query_around_point(m, life.x_pos, life.y_pos)
    IN  \E i \in 1..Len(neighbors) :
           /\ ~(life.x_pos = neighbors[i].x_pos /\ life.y_pos = neighbors[i].y_pos)
           /\ neighbors[i].age # 0
           /\ \/ sub_overflows(neighbors[i].x_pos, life.x_pos)
              \/ sub_overflows(neighbors[i].y_pos, life.y_pos)

\* The survey of life unwinds: the range query panics, or a subtraction
\* overflows (a panic of the checked build).
survey_panics(m, life) ==
    /\ life.age # 0
    /\ \/ query_around_point_panics(m, life.x_pos, life.y_pos)
       \/ survey_overflows(m, life)

RECURSIVE remove_all(_, _)
\* for life in kill_vec { self.remove_life(&life) }
remove_all(m, to_kill) ==
    IF to_kill = <<>> THEN m
    ELSE remove_all(remove_life(m, Head(to_kill)), Tail(to_kill))

RECURSIVE add_all(_, _)
\* for coords in new_life_set { self.add_life(Life::new(..)) }: a HashSet is
\* walked in an arbitrary order.
add_all(m, to_add) ==
    IF to_add = {} THEN m
    ELSE LET coords == CHOOSE c \in to_add : TRUE
         IN  add_all(add_life(m, Life_new(coords[1], coords[2])),
                     to_add \ {coords})

\* A slip: the survey takes the first stored Life without testing for one.
tick_panics_NeedsACell(m) ==
    LET lives == iter(m)
    IN  lives = <<>> \/ \E i \in 1..Len(lives) : survey_panics(m, lives[i])

tick_panics(m) ==
    LET lives == iter(m)
    IN  \E i \in 1..Len(lives) : survey_panics(m, lives[i])

\* A slip: the aging loop runs before the insertions.
tick_AgesBeforeBirths(m) ==
    LET lives == iter(m)
        surveys == [i \in 1..Len(lives) |-> survey(m, lives[i])]
        kills == {i \in 1..Len(lives) : surveys[i].kill}
        to_kill == [k \in 1..Cardinality(kills) |-> lives[Ascending(kills)[k]]]
        to_add == UNION {surveys[i].births : i \in 1..Len(lives)}
    IN  add_all(age_all(remove_all(m, to_kill)), to_add)

\* World::tick on the map: survey, removals, insertions, aging.
tick(m) ==
    LET lives == iter(m)
        surveys == [i \in 1..Len(lives) |-> survey(m, lives[i])]
        kills == {i \in 1..Len(lives) : surveys[i].kill}
        to_kill == [k \in 1..Cardinality(kills) |-> lives[Ascending(kills)[k]]]
        to_add == UNION {surveys[i].births : i \in 1..Len(lives)}
    IN  age_all(add_all(remove_all(m, to_kill), to_add))

\* ------------------------------------------------------------ actions ----

\* The stored positions.
Cells(m) == UNION {{<<x, y>> : y \in DOMAIN m[x]} : x \in DOMAIN m}

\* The Life stored at a position.
LifeAt(m, p) == m[p[1]][p[2]]

\* The input patterns explored: any one or two cells, and cells that all lie
\* in one another's survey window (offsets within -2..2), that is, in one 3x3
\* square placed anywhere on the plane.
Fits(ps) ==
    \/ Cardinality(ps) <= 2
    \/ \A p \in ps, q \in ps :
        /\ p[1] - q[1] <= 2
        /\ p[2] - q[2] <= 2

\* main: World { map: RwLock::new(BTreeMap::new()), age: 0 }
Init ==
    /\ map = EmptyMap
    /\ age = 0
    /\ phase = "load"
    /\ seed = {}
    /\ adds = 0
    /\ inits = 0
    /\ removes = 0
    /\ last = <<"none">>
    /\ panicked = FALSE
    /\ pc = "idle"
    /\ todo = <<>>
    /\ kill_vec = <<>>
    /\ new_life_set = {}
    /\ start = EmptyMap
    /\ result = <<>>

\* main, one line of input: world.add_life(Life::new(x_pos, y_pos))
LoadLife(x, y) ==
    /\ phase = "load"
    /\ Cardinality(Cells(map) \cup {<<x, y>>}) <= MaxSeed
    /\ Fits(Cells(map) \cup {<<x, y>>})
    /\ map' = add_life(map, Life_new(x, y))
    /\ UNCHANGED <<age, phase, seed, adds, inits, last, panicked, tickvars,
                   result, removes>>

\* main: world.initialize()
Initialize ==
    /\ phase = "load"
    /\ map' = initialize(map)
    /\ phase' = "run"
    /\ seed' = Cells(map)
    /\ UNCHANGED <<age, adds, inits, last, panicked, tickvars, result, removes>>

\* world.tick(), from main's loop or from any caller
Tick ==
    /\ phase \in {"run", "api"}
    /\ ~panicked
    /\ age < MaxTicks
    /\ IF tick_panics(map)
       THEN /\ panicked' = TRUE
            /\ UNCHANGED <<map, age>>
       ELSE /\ map' = tick(map)
            /\ age' = age + 1
            /\ UNCHANGED panicked
    /\ last' = IF phase = "api" THEN <<"tick">> ELSE last
    /\ UNCHANGED <<phase, seed, adds, inits, tickvars, result, removes>>

Next ==
    \/ \E x \in Coord, y \in Coord : LoadLife(x, y)
    \/ Initialize
    \/ Tick

\* main: cells loaded, initialize, then the tick loop.
Spec == Init /\ [][Next]_vars

\* ---- any caller of the public operations, in any order

\* The positions an API caller adds cells at: the 2x2 corner of the plane at
\* the maximum coordinates.
ApiXs == (CoordMax - 1)..CoordMax

ApiYs == (CoordMax - 1)..CoordMax

InitApi ==
    /\ map = EmptyMap
    /\ age = 0
    /\ phase = "api"
    /\ seed = {}
    /\ adds = 0
    /\ inits = 0
    /\ removes = 0
    /\ last = <<"none">>
    /\ panicked = FALSE
    /\ pc = "idle"
    /\ todo = <<>>
    /\ kill_vec = <<>>
    /\ new_life_set = {}
    /\ start = EmptyMap
    /\ result = <<>>

\* world.add_life(Life::new(x, y))
AddLife(x, y) ==
    /\ phase = "api"
    /\ ~panicked
    /\ adds < MaxAdds
    /\ map' = add_life(map, Life_new(x, y))
    /\ adds' = adds + 1
    /\ last' = <<"add_life", x, y>>
    /\ UNCHANGED <<age, phase, seed, inits, panicked, tickvars, result, removes>>

\* world.initialize()
ApiInitialize ==
    /\ phase = "api"
    /\ ~panicked
    /\ inits < MaxInits
    /\ map' = initialize(map)
    /\ inits' = inits + 1
    /\ last' = <<"initialize">>
    /\ UNCHANGED <<age, phase, seed, adds, panicked, tickvars, result, removes>>

\* world.remove_life(&life), for a Life at (x, y)
RemoveLife(x, y) ==
    /\ phase = "api"
    /\ ~panicked
    /\ removes < MaxRemoves
    /\ map' = remove_life(map, Life_new(x, y))
    /\ removes' = removes + 1
    /\ last' = <<"remove_life", x, y>>
    /\ UNCHANGED <<age, phase, seed, adds, inits, panicked, tickvars, result>>

NextApi ==
    \/ \E x \in ApiXs, y \in ApiYs : AddLife(x, y)
    \/ \E x \in ApiXs, y \in ApiYs : RemoveLife(x, y)
    \/ ApiInitialize
    \/ Tick

SpecApi == InitApi /\ [][NextApi]_vars

\* ------------------------------------------------- the rule of the game ----

\* The canonical rule, on the unbounded plane: live neighbours of position p
\* among the live positions S, and one generation of S.
LiveNeighbours(p, S) ==
    Cardinality({q \in S : /\ q # p
                           /\ q[1] - p[1] \in -1..1
                           /\ q[2] - p[2] \in -1..1})

Adjacent(p) == {<<p[1] + dx, p[2] + dy>> : dx \in -1..1, dy \in -1..1} \ {p}

ConwayStep(S) ==
    {p \in S : LiveNeighbours(p, S) \in {2, 3}} \cup
    {p \in (UNION {Adjacent(q) : q \in S}) \ S : LiveNeighbours(p, S) = 3}

\* Every cell lies at least 2 away from the extremes of the coordinate range.
Interior(S) ==
    \A p \in S : /\ p[1] >= CoordMin + 2 /\ p[1] <= CoordMax - 2
                 /\ p[2] >= CoordMin + 2 /\ p[2] <= CoordMax - 2

\* The live cells a survey counts: the stored cells that are no newborns.
LiveCells(m) == {p \in Cells(m) : LifeAt(m, p).age >= 1}

\* A step of tick() in main's loop.
MainTickStep == phase = "run" /\ age' = age + 1

\* C1: after the seed cells are loaded and initialize has run, every tick
\* of a world whose cells lie at least 2 away from the extremes replaces the
\* set of live positions by its canonical Conway step.
C1_TickIsConwayStep ==
    [][(MainTickStep /\ Interior(Cells(map)))
          => Cells(map') = ConwayStep(Cells(map))]_vars

\* A second generation was reached through a first one in which a cell died
\* of overpopulation, a cell died of isolation, a cell survived and a cell
\* was born.
C1_Witness ==
    /\ phase = "run" /\ age = 2
    /\ Interior(seed) /\ Interior(ConwayStep(seed))
    /\ \E p \in seed : LiveNeighbours(p, seed) >= 4
    /\ \E p \in seed : LiveNeighbours(p, seed) <= 1
    /\ \E p \in seed : p \in ConwayStep(seed)
    /\ ConwayStep(seed) \ seed # {}
    /\ Cells(map) = ConwayStep(ConwayStep(seed))

BlinkerH == {<<0, 0>>, <<1, 0>>, <<2, 0>>}

BlinkerV == {<<1, -1>>, <<1, 0>>, <<1, 1>>}

\* C2: from the cells (0,0),(1,0),(2,0) and initialize, the live cells are
\* exactly (1,-1),(1,0),(1,1) after one tick and (0,0),(1,0),(2,0) again
\* after a second tick.
C2_BlinkerOscillates ==
    (phase = "run" /\ seed = BlinkerH) =>
        /\ age = 1 => Cells(map) = BlinkerV
        /\ age = 2 => Cells(map) = BlinkerH

C2_Witness ==
    /\ phase = "run" /\ seed = BlinkerH /\ age = 2
    /\ Cells(map) = BlinkerH

\* The four cells of a 2x2 square of the coordinate range.
IsBlock(S) ==
    \E x \in CoordMin..(CoordMax - 1), y \in CoordMin..(CoordMax - 1) :
        S = {<<x, y>>, <<x + 1, y>>, <<x, y + 1>>, <<x + 1, y + 1>>}

\* C3: a world seeded with exactly the four cells of a 2x2 square, anywhere
\* on the plane (the extremes included), keeps exactly these live cells
\* after initialize and after every tick.
C3_BlockIsStable ==
    (phase = "run" /\ IsBlock(seed)) => (Cells(map) = seed /\ ~panicked)

\* A block in the corner of the plane, two ticks on.
C3_Witness ==
    /\ phase = "run" /\ age = 2
    /\ IsBlock(seed) /\ <<CoordMax, CoordMax>> \in seed
    /\ Cells(map) = seed /\ ~panicked

\* C4: a world seeded with exactly one cell, or exactly two cells at any
\* two positions, holds no cell once initialize and one tick have run.
C4_Extinction ==
    (phase = "run" /\ Cardinality(seed) \in {1, 2} /\ age >= 1)
        => Cells(map) = {}

\* Two adjacent cells on the edge of the plane, one tick on.
C4_Witness ==
    /\ phase = "run" /\ age = 1
    /\ seed = {<<CoordMax, 0>>, <<CoordMax, 1>>}
    /\ Cells(map) = {}

\* C5 (as claimed): a cell of age >= 1 with 4 or more live neighbours at
\* tick start, anywhere on the plane, is not stored when the tick completes.
C5_OverpopulationDeath ==
    [][MainTickStep =>
          \A p \in Cells(map) :
              (LifeAt(map, p).age >= 1 /\ LiveNeighbours(p, LiveCells(map)) >= 4)
                  => p \notin Cells(map')]_vars

\* C6 (as claimed): an empty position with exactly 3 live neighbours at tick
\* start holds a cell of age 0 when the tick completes.
C6_BirthAgeZero ==
    [][MainTickStep =>
          \A p \in (Coord \X Coord) \ Cells(map) :
              LiveNeighbours(p, LiveCells(map)) = 3
                  => (p \in Cells(map') /\ LifeAt(map', p).age = 0)]_vars

\* C6 (amended): an empty position with exactly 3 live neighbours at tick
\* start holds a cell of age 1 when the tick completes, the aging phase of
\* the tick having aged the newborn; and a cell of age 1 that survives the
\* following tick (2 or 3 live neighbours) has age 2 when it completes.
C6_BirthAgeOne ==
    [][MainTickStep =>
          /\ \A p \in (Coord \X Coord) \ Cells(map) :
                 LiveNeighbours(p, LiveCells(map)) = 3
                     => (p \in Cells(map') /\ LifeAt(map', p).age = 1)
          /\ \A p \in Cells(map) :
                 (LifeAt(map, p).age = 1 /\ LiveNeighbours(p, LiveCells(map)) \in {2, 3})
                     => (p \in Cells(map') /\ LifeAt(map', p).age = 2)]_vars

\* A cell born in the first tick has survived the second one.
C6_Witness ==
    /\ phase = "run" /\ age = 2
    /\ \E p \in Cells(map) \ seed :
          /\ LiveNeighbours(p, seed) = 3
          /\ LifeAt(map, p).age = 2

\* C9: initialize and tick are total on the empty grid and keep it empty:
\* with no cell loaded, the world holds no cell after initialize and after
\* each of the ticks, and nothing panics.
C9_EmptyStaysEmpty ==
    (phase = "run" /\ seed = {}) =>
        /\ map = EmptyMap
        /\ fmt(map) = <<>>
        /\ ~panicked

C9_Witness ==
    /\ phase = "run" /\ seed = {} /\ age = 2
    /\ map = EmptyMap /\ ~panicked

\* Strictly ascending by x and, for equal x, by y.
Before(p, q) == p[1] < q[1] \/ (p[1] = q[1] /\ p[2] < q[2])

\* C10: the enumeration of live cells lists each stored cell exactly once,
\* lists no position that holds no cell, and is ordered by ascending x and,
\* for equal x, ascending y.
C10_Enumeration ==
    LET out == fmt(map)
    IN  /\ \A p \in Cells(map) : Cardinality({i \in 1..Len(out) : out[i] = p}) = 1
        /\ \A i \in 1..Len(out) : out[i] \in Cells(map)
        /\ \A i \in 1..Len(out), j \in 1..Len(out) : i < j => Before(out[i], out[j])

\* After a tick with a birth: several columns, and several cells in a column.
C10_Witness ==
    /\ phase = "run" /\ age >= 1
    /\ Cells(map) \ seed # {}
    /\ Len(fmt(map)) >= 4
    /\ \E p \in Cells(map), q \in Cells(map) : p[1] = q[1] /\ p[2] # q[2]
    /\ \E p \in Cells(map), q \in Cells(map) : p[1] # q[1]

\* An add_life step of an API caller.
AddLifeStep == phase = "api" /\ adds' = adds + 1

\* C8: add_life at a position that already holds a cell changes nothing,
\* and no add_life call, whatever came before it, alters a stored cell: the
\* cell keeps its age and the position is enumerated once.
C8_AddIsIdempotent ==
    [][AddLifeStep =>
          /\ <<last'[2], last'[3]>> \in Cells(map) => map' = map
          /\ \A p \in Cells(map) :
                 p \in Cells(map') /\ LifeAt(map', p) = LifeAt(map, p)
          /\ Cardinality({i \in 1..Len(fmt(map')) :
                            fmt(map')[i] = <<last'[2], last'[3]>>}) = 1]_vars

\* The last call was add_life at a position whose cell was added before
\* initialize and has lived through a tick since.
C8_Witness ==
    /\ phase = "api" /\ last[1] = "add_life"
    /\ inits = 1 /\ age = 1
    /\ <<last[2], last[3]>> \in Cells(map)
    /\ LifeAt(map, <<last[2], last[3]>>).age = 2

\* ---- main, with tick() taken statement by statement

\* The cells loaded: a 3x3 corner of the plane at the maximum coordinates.
StepCoord == (CoordMax - 2)..CoordMax

\* tick() entered: the locals are set up and the survey loop starts on the
\* map's iterator.
BeginTick ==
    /\ phase = "run" /\ pc = "idle"
    /\ ~panicked
    /\ age < MaxTicks
    /\ pc' = "survey"
    /\ todo' = iter(map)
    /\ kill_vec' = <<>>
    /\ new_life_set' = {}
    /\ start' = map
    /\ UNCHANGED <<map, age, phase, seed, adds, inits, last, panicked, result, removes>>

\* A slip: the cell that dies is removed as soon as it is surveyed.
SurveyStep_RemovesAtOnce ==
    /\ phase = "run" /\ pc = "survey"
    /\ todo # <<>>
    /\ LET life == Head(todo)
           s == survey(map, life)
       IN  /\ map' = IF s.kill THEN remove_life(map, life) ELSE map
           /\ kill_vec' = kill_vec
           /\ new_life_set' = new_life_set \cup s.births
           /\ todo' = Tail(todo)
           /\ UNCHANGED <<pc, panicked>>
    /\ UNCHANGED <<age, phase, seed, adds, inits, last, start, result, removes>>

\* One pass of the survey loop: the next Life of the iterator is surveyed on
\* the map as it is now.
SurveyStep ==
    /\ phase = "run" /\ pc = "survey"
    /\ todo # <<>>
    /\ LET life == Head(todo)
           s == survey(map, life)
       IN  IF survey_panics(map, life)
           THEN /\ panicked' = TRUE
                /\ pc' = "idle"
                /\ UNCHANGED <<todo, kill_vec, new_life_set>>
           ELSE /\ kill_vec' = IF s.kill THEN Append(kill_vec, life) ELSE kill_vec
                /\ new_life_set' = new_life_set \cup s.births
                /\ todo' = Tail(todo)
                /\ UNCHANGED <<pc, panicked>>
    /\ UNCHANGED <<map, age, phase, seed, adds, inits, last, start, result, removes>>

\* The survey loop ends and the read guard is dropped.
EndSurvey ==
    /\ phase = "run" /\ pc = "survey"
    /\ todo = <<>>
    /\ pc' = "kill"
    /\ UNCHANGED <<map, age, phase, seed, adds, inits, last, panicked,
                   todo, kill_vec, new_life_set, start, result, removes>>

\* for life in kill_vec { self.remove_life(&life) }, one pass
KillStep ==
    /\ phase = "run" /\ pc = "kill"
    /\ kill_vec # <<>>
    /\ map' = remove_life(map, Head(kill_vec))
    /\ kill_vec' = Tail(kill_vec)
    /\ UNCHANGED <<age, phase, seed, adds, inits, last, panicked,
                   pc, todo, new_life_set, start, result, removes>>

EndKill ==
    /\ phase = "run" /\ pc = "kill"
    /\ kill_vec = <<>>
    /\ pc' = "add"
    /\ UNCHANGED <<map, age, phase, seed, adds, inits, last, panicked,
                   todo, kill_vec, new_life_set, start, result, removes>>

\* for coords in new_life_set { self.add_life(..) }, one pass: the HashSet
\* yields its elements in any order.
AddStep ==
    /\ phase = "run" /\ pc = "add"
    /\ \E coords \in new_life_set :
          /\ map' = add_life(map, Life_new(coords[1], coords[2]))
          /\ new_life_set' = new_life_set \ {coords}
    /\ UNCHANGED <<age, phase, seed, adds, inits, last, panicked,
                   pc, todo, kill_vec, start, result, removes>>

\* A slip: the aging loop passes over the cells inserted in this tick.
AgeStep_SkipsNewborns ==
    /\ phase = "run" /\ pc = "add"
    /\ new_life_set = {}
    /\ map' = age_all_SkipsNewborns(map)
    /\ age' = age + 1
    /\ pc' = "idle"
    /\ UNCHANGED <<phase, seed, adds, inits, last, panicked,
                   todo, kill_vec, new_life_set, start, result, removes>>

\* The aging loop and self.age += 1: tick() returns.
AgeStep ==
    /\ phase = "run" /\ pc = "add"
    /\ new_life_set = {}
    /\ map' = age_all(map)
    /\ age' = age + 1
    /\ pc' = "idle"
    /\ UNCHANGED <<phase, seed, adds, inits, last, panicked,
                   todo, kill_vec, new_life_set, start, result, removes>>

NextSteps ==
    \/ \E x \in StepCoord, y \in StepCoord : LoadLife(x, y)
    \/ Initialize
    \/ BeginTick
    \/ SurveyStep
    \/ EndSurvey
    \/ KillStep
    \/ EndKill
    \/ AddStep
    \/ AgeStep

SpecSteps == Init /\ [][NextSteps]_vars

\* The age stored at every position.
AgesOf(m) == [p \in Cells(m) |-> LifeAt(m, p).age]

\* What a tick decides on the map m0 alone, with no order of events: the
\* positions whose survey on m0 says die, the positions the surveys on m0
\* nominate, and the ages that follow.
DeadOn(m0) == {p \in Cells(m0) : survey(m0, LifeAt(m0, p)).kill}

BornOn(m0) == UNION {survey(m0, LifeAt(m0, p)).births : p \in Cells(m0)}

SnapshotResult(m0) ==
    [p \in (Cells(m0) \ DeadOn(m0)) \cup BornOn(m0) |->
        IF p \in Cells(m0) \ DeadOn(m0) THEN LifeAt(m0, p).age + 1 ELSE 1]

\* The positions of the Lives of a sequence.
PositionsOf(ls) == {<<ls[i].x_pos, ls[i].y_pos>> : i \in 1..Len(ls)}

\* C7: while the survey loop runs the map is the map of tick start; the
\* deaths and the birth candidates it collects are those decided on that
\* map alone; and when the tick returns, the ages stored are the ones that
\* follow from these decisions, whatever the order of the insertions.
C7_SnapshotConsistency ==
    /\ pc = "survey" =>
          /\ map = start
          /\ PositionsOf(kill_vec) \subseteq DeadOn(start)
          /\ new_life_set \subseteq BornOn(start)
    /\ (pc = "survey" /\ todo = <<>>) =>
          /\ PositionsOf(kill_vec) = DeadOn(start)
          /\ Len(kill_vec) = Cardinality(DeadOn(start))
          /\ new_life_set = BornOn(start)
    /\ (pc = "idle" /\ age >= 1 /\ ~panicked) =>
          /\ AgesOf(map) = SnapshotResult(start)
          /\ map = tick(start)

\* A tick has returned in which a cell died that a cell surveyed after it
\* counted as a neighbour, and in which at least two cells were born.
C7_Witness ==
    /\ pc = "idle" /\ age >= 1
    /\ Cardinality(BornOn(start) \ Cells(start)) >= 2
    /\ \E d \in DeadOn(start), q \in Cells(start) \ DeadOn(start) :
          /\ Before(d, q)
          /\ d \in Adjacent(q)
    /\ AgesOf(map) = SnapshotResult(start)

\* ---- a caller of the range queries

\* The bounds a caller passes to spatial_query: the two smallest and the two
\* largest coordinates, in any combination, well ordered or not.
QueryBounds == {CoordMin, CoordMin + 1, CoordMax - 1, CoordMax}

\* The cells loaded before a query: in the 2x2 corner at the minimum
\* coordinates and in the 2x2 corner at the maximum coordinates.
QuerySeeds ==
    {p \in QueryBounds \X QueryBounds : (p[1] < 0) = (p[2] < 0)}

\* world.spatial_query(start_x, start_y, end_x, end_y): the Vec is returned,
\* or BTreeMap::range panics.  The runs explored end with their query.
SpatialQuery(start_x, start_y, end_x, end_y) ==
    /\ phase \in {"load", "run"}
    /\ ~panicked
    /\ phase' = "queried"
    /\ last' = <<"spatial_query", start_x, start_y, end_x, end_y>>
    /\ IF spatial_query_panics(map, start_x, start_y, end_x, end_y)
       THEN /\ panicked' = TRUE
            /\ UNCHANGED result
       ELSE /\ result' = spatial_query(map, start_x, start_y, end_x, end_y)
            /\ UNCHANGED panicked
    /\ UNCHANGED <<map, age, seed, adds, inits, removes, tickvars>>

\* world.query_around_point(x, y)
QueryAroundPoint(x, y) ==
    /\ phase \in {"load", "run"}
    /\ ~panicked
    /\ phase' = "queried"
    /\ last' = <<"query_around_point", x, y>>
    /\ IF query_around_point_panics(map, x, y)
       THEN /\ panicked' = TRUE
            /\ UNCHANGED result
       ELSE /\ result' = query_around_point(map, x, y)
            /\ UNCHANGED panicked
    /\ UNCHANGED <<map, age, seed, adds, inits, removes, tickvars>>

NextQuery ==
    \/ \E p \in QuerySeeds : LoadLife(p[1], p[2])
    \/ Initialize
    \/ Tick
    \/ \E start_x \in QueryBounds, start_y \in QueryBounds,
          end_x \in QueryBounds, end_y \in QueryBounds :
          SpatialQuery(start_x, start_y, end_x, end_y)
    \/ \E x \in Coord, y \in Coord : QueryAroundPoint(x, y)

SpecQuery == Init /\ [][NextQuery]_vars

\* The stored positions of the closed rectangle x_lo..x_hi by y_lo..y_hi.
InRectangle(m, x_lo, x_hi, y_lo, y_hi) ==
    {p \in Cells(m) : /\ x_lo <= p[1] /\ p[1] <= x_hi
                      /\ y_lo <= p[2] /\ p[2] <= y_hi}

\* The Lives of the sequence ls are the Lives stored in m at the positions
\* ps, each one once.
ExactlyTheCells(ls, m, ps) ==
    /\ PositionsOf(ls) = ps
    /\ Len(ls) = Cardinality(ps)
    /\ \A i \in 1..Len(ls) : ls[i] = LifeAt(m, <<ls[i].x_pos, ls[i].y_pos>>)

\* C11: the Vec spatial_query returns holds exactly the stored cells with
\* start_x <= x <= end_x and end_y <= y <= start_y, each once; and
\* query_around_point(x, y) returns, for every centre, exactly the stored
\* cells at offsets within -2..2 on both axes.
C11_QueryIsExact ==
    /\ (phase = "queried" /\ last[1] = "spatial_query" /\ ~panicked) =>
          ExactlyTheCells(result, map,
                          InRectangle(map, last[2], last[4], last[5], last[3]))
    /\ (phase = "queried" /\ last[1] = "query_around_point") =>
          /\ ~panicked
          /\ ExactlyTheCells(result, map,
                 {p \in Cells(map) : /\ p[1] - last[2] \in -2..2
                                     /\ p[2] - last[3] \in -2..2})

\* A query returned two cells or more, one of them on the rectangle's upper
\* x bound, and left a stored cell out.
C11_Witness ==
    /\ phase = "queried" /\ last[1] = "spatial_query" /\ ~panicked
    /\ Len(result) >= 2
    /\ \E i \in 1..Len(result) : result[i].x_pos = last[4]
    /\ Cells(map) \ PositionsOf(result) # {}

\* C12: spatial_query returns for any four bounds, and it returns the empty
\* Vec when the range is empty or holds no stored cell.
C12_QueryIsTotal ==
    (phase = "queried" /\ last[1] = "spatial_query") =>
        /\ ~panicked
        /\ InRectangle(map, last[2], last[4], last[5], last[3]) = {} =>
              result = <<>>

\* C13: no tick of main's loop panics, and in every state the survey of
\* every stored cell of age 1 or more, cells at and next to the minimum and
\* maximum coordinates included, computes in range: the four bounds of its query
\* window and its eight candidate coordinates are coordinates (they
\* saturate), the window is well ordered, and every offset neighbour - centre
\* it computes lies in -2..2.
C13_NoOverflow ==
    /\ ~panicked
    /\ \A p \in LiveCells(map) :
          LET life == LifeAt(map, p)
              window == <<saturating_sub(life.x_pos, 2),
                          saturating_add(life.y_pos, 2),
                          saturating_add(life.x_pos, 2),
                          saturating_sub(life.y_pos, 2)>>
              neighbors == query_around_point(map, life.x_pos, life.y_pos)
          IN  /\ \A i \in 1..4 : window[i] \in Coord
              /\ window[1] <= window[3] /\ window[4] <= window[2]
              /\ \A pos \in 0..7 :
                    calculate_neighbor_coordinates(life, pos) \in Coord \X Coord
              /\ \A i \in 1..Len(neighbors) :
                    /\ neighbors[i].x_pos - life.x_pos \in -2..2
                    /\ neighbors[i].y_pos - life.y_pos \in -2..2
                    /\ ~sub_overflows(neighbors[i].x_pos, life.x_pos)
                    /\ ~sub_overflows(neighbors[i].y_pos, life.y_pos)

\* A tick has completed on three cells or more, one of them in the corner
\* of minimum x and maximum y, and a cell is stored at the minimum x after it.
C13_Witness ==
    /\ phase = "run" /\ age >= 1 /\ ~panicked
    /\ <<CoordMin, CoordMax>> \in seed
    /\ Cardinality(seed) >= 3
    /\ \E q \in Cells(map) : q[1] = CoordMin

\* The eight positions around a centre in the order of the counters:
\* NW, N, NE, W, E, SW, S, SE (y grows to the north).
DirOffset(i) ==
    CASE i = 0 -> <<-1, 1>>  [] i = 1 -> <<0, 1>>  [] i = 2 -> <<1, 1>>
      [] i = 3 -> <<-1, 0>>  [] i = 4 -> <<1, 0>>
      [] i = 5 -> <<-1, -1>> [] i = 6 -> <<0, -1>> [] i = 7 -> <<1, -1>>

\* C14: while a survey runs, the counters the neighbour loop computes for
\* any centre of age 1 or more are, for each i, the number of cells of age 1
\* or more (the centre included, the candidate position excluded) within
\* Chebyshev distance 1 of the position at DirOffset(i) from the centre;
\* calculate_neighbor_coordinates(i) is that position when it is on the
\* plane; and the table adds to counter i for the offset (dx, dy) exactly
\* when (dx, dy) is adjacent to and different from DirOffset(i).
C14_CounterTable ==
    /\ pc = "survey" =>
          \A p \in LiveCells(map), i \in 0..7 :
             LET life == LifeAt(map, p)
                 cand == <<p[1] + DirOffset(i)[1], p[2] + DirOffset(i)[2]>>
             IN  /\ survey_counts(map, life).counters[i]
                       = LiveNeighbours(cand, LiveCells(map))
                 /\ cand \in Coord \X Coord =>
                       calculate_neighbor_coordinates(life, i) = cand
    /\ \A dx \in -2..2, dy \in -2..2, i \in 0..7 :
          <<dx, dy>> # <<0, 0>> =>
             (i \in CounterTable(dx, dy)
                <=> /\ <<dx, dy>> # DirOffset(i)
                    /\ dx - DirOffset(i)[1] \in -1..1
                    /\ dy - DirOffset(i)[2] \in -1..1)

\* The survey is about to visit a centre with a live cell two columns to its
\* west and another two rows to its south, and one of its counters is 3.
C14_Witness ==
    /\ pc = "survey" /\ todo # <<>>
    /\ Head(todo).age >= 1
    /\ <<Head(todo).x_pos - 2, Head(todo).y_pos>> \in LiveCells(map)
    /\ <<Head(todo).x_pos, Head(todo).y_pos - 2>> \in LiveCells(map)
    /\ \E i \in 0..7 : survey_counts(map, Head(todo)).counters[i] = 3

\* The cells of age 1 or more of the map m0 that have exactly 2 or 3 live
\* neighbours on it.
Survivors(m0) ==
    {p \in LiveCells(m0) : LiveNeighbours(p, LiveCells(m0)) \in {2, 3}}

\* C15: a cell of age 1 or more that has 2 or 3 live neighbours when a tick
\* starts is never pushed on kill_vec and stays stored, untouched, through
\* the survey, the removals and the insertions of that tick (an insertion at
\* its position does not replace it); when the tick returns it is stored at
\* the same position with its age one higher.
C15_SurvivorKept ==
    /\ pc \in {"survey", "kill", "add"} =>
          \A p \in Survivors(start) :
             /\ p \in Cells(map)
             /\ LifeAt(map, p) = LifeAt(start, p)
             /\ p \notin PositionsOf(kill_vec)
    /\ (pc = "idle" /\ age >= 1 /\ ~panicked) =>
          \A p \in Survivors(start) :
             /\ p \in Cells(map)
             /\ LifeAt(map, p).x_pos = p[1] /\ LifeAt(map, p).y_pos = p[2]
             /\ LifeAt(map, p).age = LifeAt(start, p).age + 1

\* The second tick has returned; a cell that had 3 live neighbours when it
\* started, and whose position the survey nominated for a birth, has age 3.
C15_Witness ==
    /\ pc = "idle" /\ age = 2 /\ ~panicked
    /\ \E p \in Survivors(start) \cap BornOn(start) :
          /\ LiveNeighbours(p, LiveCells(start)) = 3
          /\ LifeAt(start, p).age = 2
          /\ LifeAt(map, p).age = 3

\* The stored cells of age 0, and the map without them.
Newborn(m) == {p \in Cells(m) : LifeAt(m, p).age = 0}

AgedOnly(m) ==
    [x \in DOMAIN m |-> [y \in {z \in DOMAIN m[x] : m[x][z].age >= 1} |->
                            m[x][y]]]

ApiTickStep == phase = "api" /\ age' = age + 1

\* C16: in a tick called on a world that holds cells of age 0 (added and
\* not yet initialized), every such cell is surveyed to nothing (no kill, no
\* birth candidate), is still stored after the tick and has age 1; the
\* counts of every other cell are those it has on the map without the age-0
\* cells, and so is the outcome of the tick for every other position; and
\* when all stored cells have age 0 the tick leaves the stored positions as
\* they are.
C16_NewbornsAreInert ==
    [][ApiTickStep =>
          /\ \A p \in Newborn(map) :
                /\ survey(map, LifeAt(map, p)) = [kill |-> FALSE, births |-> {}]
                /\ p \in Cells(map')
                /\ LifeAt(map', p).age = 1
          /\ \A p \in LiveCells(map) :
                survey_counts(map, LifeAt(map, p))
                   = survey_counts(AgedOnly(map), LifeAt(map, p))
          /\ LET others == AgesOf(tick(AgedOnly(map)))
             IN  AgesOf(map') =
                    [p \in DOMAIN others \cup Newborn(map) |->
                        IF p \in Newborn(map) THEN 1 ELSE others[p]]
          /\ LiveCells(map) = {} => Cells(map') = Cells(map)]_vars

\* A tick has returned that was called on an initialized cell and a cell of
\* age 0 next to it: the first had no live neighbour and is gone, the second
\* is stored with age 1.
C16_Witness ==
    /\ phase = "api" /\ last = <<"tick">>
    /\ age = 1 /\ inits = 1 /\ adds = 2 /\ removes = 0
    /\ Cardinality(Cells(map)) = 1
    /\ \A p \in Cells(map) : LifeAt(map, p).age = 1

\* C17: whenever the last operation a caller made is initialize or a tick
\* that returned (no add_life since), every stored cell has age 1 or more: a
\* tick called in such a state skips no cell as newborn.
C17_AgeInvariant ==
    (phase = "api" /\ last[1] \in {"initialize", "tick"} /\ ~panicked) =>
        /\ \A p \in Cells(map) : LifeAt(map, p).age >= 1
        /\ Newborn(map) = {}

\* A tick has returned that completed a block: three cells are in their
\* third generation and the cell born in this tick has age 1.
C17_Witness ==
    /\ phase = "api" /\ last = <<"tick">> /\ age = 2 /\ inits = 1
    /\ Cardinality({p \in Cells(map) : LifeAt(map, p).age = 1}) >= 1
    /\ Cardinality({p \in Cells(map) : LifeAt(map, p).age = 3}) >= 3

\* In main's loop, once a tick has run: the cells born in the tick that
\* came last (they have age 1) and the older cells that have one of them as
\* a neighbour.
JustBorn(m) == {q \in Cells(m) : LifeAt(m, q).age = 1}

OlderBesideJustBorn(m) ==
    {p \in Cells(m) : /\ LifeAt(m, p).age >= 2
                      /\ Adjacent(p) \cap JustBorn(m) # {}}

\* C18, as claimed: in the survey of a tick, an older cell's count leaves out
\* the neighbours born in the tick before, and its fate follows that count.
C18_GraceAcrossTicks ==
    (pc = "survey" /\ age >= 1) =>
        \A p \in OlderBesideJustBorn(map) :
           /\ survey_counts(map, LifeAt(map, p)).close
                 = LiveNeighbours(p, Cells(map) \ JustBorn(map))
           /\ todo = <<>> =>
                 (p \in PositionsOf(kill_vec)
                    <=> LiveNeighbours(p, Cells(map) \ JustBorn(map))
                           \notin {2, 3})

\* C18, as the code has it: the cells born in the first tick have age 1 when
\* the second tick surveys; and in the survey of any later tick an older
\* cell's count includes the neighbours born in the tick before, it is the
\* count of the canonical rule, and the cell is scheduled to die exactly
\* when that count is neither 2 nor 3.
C18_JustBornAreCounted ==
    /\ (pc = "survey" /\ age = 1) =>
          \A q \in Cells(map) \ seed : LifeAt(map, q).age = 1
    /\ (pc = "survey" /\ age >= 1) =>
          \A p \in OlderBesideJustBorn(map) :
             /\ survey_counts(map, LifeAt(map, p)).close
                   = LiveNeighbours(p, Cells(map))
             /\ todo = <<>> =>
                   (p \in PositionsOf(kill_vec)
                      <=> LiveNeighbours(p, Cells(map)) \notin {2, 3})

\* The survey of the second tick has ended; an older cell is kept whose
\* count is 2 or 3 only with the neighbour born in the first tick.
C18_Witness ==
    /\ pc = "survey" /\ age = 1 /\ todo = <<>>
    /\ \E p \in OlderBesideJustBorn(map) :
          /\ p \in seed
          /\ Adjacent(p) \cap (Cells(map) \ seed) # {}
          /\ LiveNeighbours(p, Cells(map)) \in {2, 3}
          /\ LiveNeighbours(p, Cells(map) \ JustBorn(map)) \notin {2, 3}
          /\ p \notin PositionsOf(kill_vec)

\* The guard of World.map that tick() holds between two of its statements:
\* the read guard during the survey block.  remove_life, add_life and the
\* aging loop each take the write guard and drop it again, all inside
\* KillStep, AddStep and AgeStep, so that between two steps no guard is held.
tick_guard == IF pc = "survey" THEN "read" ELSE "none"

\* fn tick(&mut self): from its entry to its return the call borrows the
\* World, and with it World.map, exclusively.
exclusively_borrowed == pc # "idle"

\* A slip: tick(&self), the World stays shared while the tick runs.
reader_admitted_SharedTick == tick_guard # "write"

\* A reader can take the read lock of World.map: it can reach the World (no
\* exclusive borrow is live) and no write guard is held.
reader_admitted == ~exclusively_borrowed /\ tick_guard # "write"

\* C19: in every state in which a reader can take the read lock once a tick
\* has been called, the map is a whole generation: all the deaths, births and
\* age increments of the last tick are applied.  While the survey runs the
\* tick holds the read guard and the map is the map of tick start; the map
\* differs from both whole generations only while the removals, the
\* insertions and the aging are under way, and no reader is admitted then.
C19_AtomicGeneration ==
    /\ (reader_admitted /\ ~panicked /\ age >= 1) =>
          AgesOf(map) = SnapshotResult(start)
    /\ pc = "survey" => (tick_guard = "read" /\ map = start)
    /\ (AgesOf(map) # AgesOf(start) /\ AgesOf(map) # SnapshotResult(start)
          /\ ~panicked /\ (pc # "idle" \/ age >= 1)) =>
          (pc \in {"kill", "add"} /\ ~reader_admitted)

\* A tick has returned that removed two cells or more and bore one: a reader
\* is admitted and finds all of it applied.
C19_Witness ==
    /\ reader_admitted /\ ~panicked /\ age >= 1
    /\ Cardinality(DeadOn(start)) >= 2
    /\ BornOn(start) \ Cells(start) # {}
    /\ AgesOf(map) = SnapshotResult(start)
    /\ AgesOf(map) # AgesOf(start)

====
